---------------------------- MODULE Spec2Model ----------------------------
(***************************************************************************)
(* Model of product-db-generation/transform_to_clean_csv.py.               *)
(*                                                                         *)
(* A Python str is a sequence of one-character strings, so that strip,     *)
(* lower, slicing, joining, substring search and the regular expressions   *)
(* are computed character by character as the code computes them.          *)
(***************************************************************************)
EXTENDS Integers, Sequences, FiniteSets, TLC

VARIABLES
    \* main()
    ref_rows,       \* the data rows of the reference CSV (below its header)
    ref_header,     \* the header row of the reference CSV
    ref_by_asin,    \* load_reference_by_asin's result
    raw_rows,       \* list(csv.DictReader(f)) of the input CSV
    api_key,        \* os.environ has a non-empty ANTHROPIC_API_KEY
    has_anthropic,  \* "import anthropic" succeeds
    i,              \* number of raw rows main's loop has finished
    out_rows,       \* main's out_rows
    paths,          \* history: the branch of main that built each out row
    requests,       \* history: row numbers of client.messages.create calls
    written,        \* the records written to OUTPUT_CSV, in order
    error,          \* the exception that ended the run, "" if none
    pc,             \* "load", "loop", "write", "done", "crashed"
    \* one call of generate_description_and_labels
    g_row, g_title, g_raw_text, g_env, g_ret, g_pc,
    \* normalize_price applied once and again
    p_raw, p_out, p_again, p_pc,
    \* one call of _extract_asin
    a_url, a_out, a_pc

mainVars == <<ref_rows, ref_header, ref_by_asin, raw_rows, api_key,
              has_anthropic, i, out_rows, paths, requests, written, error, pc>>
genVars == <<g_row, g_title, g_raw_text, g_env, g_ret, g_pc>>
priceVars == <<p_raw, p_out, p_again, p_pc>>
asinVars == <<a_url, a_out, a_pc>>
vars == <<mainVars, genVars, priceVars, asinVars>>

---------------------------------------------------------------------------
(* Bounds of the model *)

\* longest price string given to normalize_price (besides HugeDigits)
MaxPriceLen == 5
\* longest run of characters after "/dp/" in the URLs given to _extract_asin
MaxSegLen == 12
\* most raw rows in the input CSV
MaxRows == 2

---------------------------------------------------------------------------
(* str primitives *)

EMPTY == <<>>

UPPER == <<"A", "B", "C", "D", "E", "F", "G", "H", "I", "J", "K", "L", "M", "N", "O", "P", "Q", "R", "S", "T", "U", "V", "W", "X", "Y", "Z">>
LOWER == <<"a", "b", "c", "d", "e", "f", "g", "h", "i", "j", "k", "l", "m", "n", "o", "p", "q", "r", "s", "t", "u", "v", "w", "x", "y", "z">>
DIGITS == <<"0", "1", "2", "3", "4", "5", "6", "7", "8", "9">>

Range(s) == {s[k] : k \in 1..Len(s)}

IsUpper(c) == c \in Range(UPPER)
IsDigit(c) == c \in Range(DIGITS)
\* str.strip() and \s: whitespace
IsSpace(c) == c \in {" ", "\n", "\t", "\r"}

\* str.lower(), one character
LowerChar(c) ==
    IF IsUpper(c) THEN LOWER[CHOOSE k \in 1..Len(UPPER) : UPPER[k] = c] ELSE c

\* str.lower()
Lower(s) == [k \in 1..Len(s) |-> LowerChar(s[k])]

\* n copies of c
Rep(c, n) == [k \in 1..n |-> c]

\* s[:n]
Take(s, n) == IF Len(s) <= n THEN s ELSE SubSeq(s, 1, n)

\* number of leading whitespace characters
LeadingSpaces(s) ==
    CHOOSE n \in 0..Len(s) :
        /\ \A k \in 1..n : IsSpace(s[k])
        /\ n = Len(s) \/ ~IsSpace(s[n + 1])

\* number of trailing whitespace characters
TrailingSpaces(s) ==
    CHOOSE n \in 0..Len(s) :
        /\ \A k \in 1..n : IsSpace(s[Len(s) + 1 - k])
        /\ n = Len(s) \/ ~IsSpace(s[Len(s) - n])

\* str.strip()
Strip(s) ==
    LET a == LeadingSpaces(s)
    IN  IF a = Len(s) THEN EMPTY
        ELSE SubSeq(s, a + 1, Len(s) - TrailingSpaces(s))

\* "sub in s"
Contains(s, sub) ==
    \E k \in 1..(Len(s) - Len(sub) + 1) : SubSeq(s, k, k + Len(sub) - 1) = sub

\* sep.join(parts)
RECURSIVE Join(_, _)
Join(parts, sep) ==
    IF parts = <<>> THEN EMPTY
    ELSE IF Len(parts) = 1 THEN parts[1]
    ELSE parts[1] \o sep \o Join(Tail(parts), sep)

\* str.replace(c, d) for single characters
ReplaceChar(s, c, d) == [k \in 1..Len(s) |-> IF s[k] = c THEN d ELSE s[k]]

\* the characters of s at the positions where keep is TRUE, in order
Filter(s, keep) ==
    LET marked == [k \in 1..Len(s) |-> <<s[k], keep[k]>>]
        kept == SelectSeq(marked, LAMBDA m : m[2])
    IN  [k \in 1..Len(kept) |-> kept[k][1]]

---------------------------------------------------------------------------
(* _extract_asin *)

ASIN_MIN == 9
ASIN_MAX == 10
DP == <<"/", "d", "p", "/">>

\* [A-Z0-9]
IsAsinChar(c) == IsUpper(c) \/ IsDigit(c)

\* how many characters [A-Z0-9]{9,10} takes (greedily) after a "/dp/" that
\* starts at position p of url; 0 when the pattern does not match at p
MatchLenAt(url, p) ==
    IF p + 3 > Len(url) \/ SubSeq(url, p, p + 3) # DP THEN 0
    ELSE LET run == CHOOSE n \in 0..ASIN_MAX :
                        /\ \A k \in 1..n :
                              /\ p + 3 + k <= Len(url)
                              /\ IsAsinChar(url[p + 3 + k])
                        /\ \/ n = ASIN_MAX
                           \/ p + 4 + n > Len(url)
                           \/ ~IsAsinChar(url[p + 4 + n])
         IN  IF run >= ASIN_MIN THEN run ELSE 0

\* positions where re.search can match
MatchStarts(url) == {p \in 1..Len(url) : MatchLenAt(url, p) > 0}

\* re.search: the leftmost match; m.group(1) if m else ""
_extract_asin(url) ==
    IF MatchStarts(url) = {} THEN EMPTY
    ELSE LET p == CHOOSE q \in MatchStarts(url) :
                      \A r \in MatchStarts(url) : q <= r
         IN  SubSeq(url, p + 4, p + 3 + MatchLenAt(url, p))

---------------------------------------------------------------------------
(* normalize_price *)

\* A decimal integer of more than FLOAT_MAX_DIGITS significant digits is
\* above the largest double: float() returns inf for it.
FLOAT_MAX_DIGITS == 309

\* a returned value, or the exception a call raised
Ret(v) == [exc |-> "", val |-> v]
Raise(e) == [exc |-> e, val |-> EMPTY]

DigitVal(c) == (CHOOSE k \in 1..Len(DIGITS) : DIGITS[k] = c) - 1

RECURSIVE ToNat(_)
ToNat(ds) ==
    IF ds = <<>> THEN 0
    ELSE 10 * ToNat(SubSeq(ds, 1, Len(ds) - 1)) + DigitVal(ds[Len(ds)])

\* str(n) for n >= 0
RECURSIVE NatToStr(_)
NatToStr(n) ==
    IF n < 10 THEN <<DIGITS[n + 1]>>
    ELSE NatToStr(n \div 10) \o <<DIGITS[(n % 10) + 1]>>

RECURSIVE Pow10(_)
Pow10(n) == IF n = 0 THEN 1 ELSE 10 * Pow10(n - 1)

AllDigits(s) == s # <<>> /\ \A k \in 1..Len(s) : IsDigit(s[k])

\* \d+(?:\.\d+)?
IsPlainDecimal(s) ==
    \/ AllDigits(s)
    \/ \E d \in 1..Len(s) :
          /\ s[d] = "."
          /\ AllDigits(SubSeq(s, 1, d - 1))
          /\ AllDigits(SubSeq(s, d + 1, Len(s)))

\* the digits before and after the point of a plain decimal
IntPart(s) ==
    IF AllDigits(s) THEN s
    ELSE SubSeq(s, 1, (CHOOSE d \in 1..Len(s) : s[d] = ".") - 1)
FracPart(s) ==
    IF AllDigits(s) THEN EMPTY
    ELSE SubSeq(s, (CHOOSE d \in 1..Len(s) : s[d] = ".") + 1, Len(s))

\* the integer part without its leading zeros
Significant(ds) ==
    LET z == CHOOSE n \in 0..Len(ds) :
                 /\ \A k \in 1..n : ds[k] = "0"
                 /\ n = Len(ds) \/ ds[n + 1] # "0"
    IN  SubSeq(ds, z + 1, Len(ds))

\* float(m.group(1)) is inf
FloatIsInf(s) == Len(Significant(IntPart(s))) > FLOAT_MAX_DIGITS

\* num == int(num), for a finite num
IsWhole(s) == \A k \in 1..Len(FracPart(s)) : FracPart(s)[k] = "0"

\* f"{num:.2f}": the value rounded to hundredths.  A value exactly half way
\* between two hundredths is rounded by its binary representation in the
\* code; it needs a digit 5, which PriceAlphabet leaves out.
Format2f(s) ==
    LET d == Len(FracPart(s))
        n == ToNat(IntPart(s) \o FracPart(s))
        cents == IF d <= 2 THEN n * Pow10(2 - d)
                 ELSE (n \div Pow10(d - 2))
                      + (IF 2 * (n % Pow10(d - 2)) >= Pow10(d - 2) THEN 1 ELSE 0)
    IN  NatToStr(cents \div 100)
        \o <<".", DIGITS[((cents % 100) \div 10) + 1], DIGITS[(cents % 10) + 1]>>

\* what \$?\s* leaves of the stripped string
AfterCurrency(s) ==
    LET t == IF s # <<>> /\ s[1] = "$" THEN Tail(s) ELSE s
    IN  SubSeq(t, LeadingSpaces(t) + 1, Len(t))

normalize_price(raw) ==
    LET s == Strip(raw)
        num == AfterCurrency(s)
    IN  IF s = EMPTY THEN Ret(EMPTY)
        ELSE IF ~IsPlainDecimal(num) THEN Ret(s)
        ELSE IF FloatIsInf(num) THEN Raise("OverflowError")
        ELSE IF IsWhole(num) THEN Ret(NatToStr(ToNat(IntPart(num))))
        ELSE Ret(Format2f(num))

---------------------------------------------------------------------------
(* _get, raw_text_for_llm, _fallback_labels *)

ALLOWED_LABELS == <<
    <<"W", "h", "i", "t", "e", "h", "e", "a", "d", "s">>,
    <<"B", "l", "a", "c", "k", "h", "e", "a", "d", "s">>,
    <<"C", "y", "s", "t", "i", "c", " ", "a", "c", "n", "e">>,
    <<"H", "o", "r", "m", "o", "n", "a", "l", " ", "b", "r", "e", "a", "k", "o", "u", "t", "s">>,
    <<"A", "c", "n", "e", " ", "s", "c", "a", "r", "r", "i", "n", "g">>,
    <<"T", "e", "x", "t", "u", "r", "e", "d", " ", "s", "k", "i", "n">>,
    <<"L", "a", "r", "g", "e", " ", "p", "o", "r", "e", "s">>,
    <<"H", "y", "p", "e", "r", "p", "i", "g", "m", "e", "n", "t", "a", "t", "i", "o", "n">>,
    <<"P", "o", "s", "t", "-", "i", "n", "f", "l", "a", "m", "m", "a", "t", "o", "r", "y", " ", "h", "y", "p", "e", "r", "p", "i", "g", "m", "e", "n", "t", "a", "t", "i", "o", "n">>,
    <<"M", "e", "l", "a", "s", "m", "a">>,
    <<"U", "n", "e", "v", "e", "n", " ", "s", "k", "i", "n", " ", "t", "o", "n", "e">>,
    <<"W", "r", "i", "n", "k", "l", "e", "s">>,
    <<"F", "i", "n", "e", " ", "l", "i", "n", "e", "s">>,
    <<"O", "i", "l", "y", " ", "s", "k", "i", "n">>,
    <<"D", "r", "y", " ", "s", "k", "i", "n">>,
    <<"C", "o", "m", "b", "i", "n", "a", "t", "i", "o", "n", " ", "s", "k", "i", "n">>,
    <<"N", "o", "r", "m", "a", "l", " ", "s", "k", "i", "n">>
>>

COMMA == <<",">>
NLNL == <<"\n", "\n">>

\* raw_text_for_llm: blob[:RAW_CAP]
RAW_CAP == 12000
\* generate_description_and_labels: raw_text[:DESC_CAP] in the fallbacks
DESC_CAP == 1500

\* (row.get(key) or "").strip(), given the cell
_get(cell) == Strip(cell)

\* re.sub(r"\n{3,}", "\n\n", s): of a run of newlines the first two stay
CollapseNewlines(s) ==
    Filter(s, [k \in 1..Len(s) |->
                  ~(s[k] = "\n" /\ k >= 3 /\ s[k - 1] = "\n" /\ s[k - 2] = "\n")])

\* re.sub(r" {2,}", " ", s): of a run of spaces the first stays
CollapseSpaces(s) ==
    Filter(s, [k \in 1..Len(s) |-> ~(s[k] = " " /\ k >= 2 /\ s[k - 1] = " ")])

raw_text_for_llm(row) ==
    LET parts == <<_get(row.productDescription), _get(row.additionalInfo),
                   _get(row.aboutProduct)>>
        blob == Join(SelectSeq(parts, LAMBDA q : q # EMPTY), NLNL)
        capped == Strip(Take(CollapseSpaces(CollapseNewlines(blob)), RAW_CAP))
    IN  IF capped # EMPTY THEN capped ELSE _get(row.title)

\* norm in _fallback_labels
norm(s) == ReplaceChar(Lower(s), "-", " ")

_fallback_labels(title, raw_text) ==
    LET text == norm(title \o <<" ">> \o raw_text)
        matched == SelectSeq(ALLOWED_LABELS, LAMBDA l : Contains(text, norm(l)))
    IN  IF matched # <<>> THEN Lower(Join(matched, COMMA)) ELSE EMPTY

---------------------------------------------------------------------------
(* generate_description_and_labels *)

\* A JSON value under a key of the response object.  n is a number's value
\* or an array's length.
JAbsent == [t |-> "absent", s |-> EMPTY, n |-> 0]
JNull == [t |-> "null", s |-> EMPTY, n |-> 0]
JStr(s) == [t |-> "str", s |-> s, n |-> 0]
JNum(n) == [t |-> "num", s |-> EMPTY, n |-> n]
JArray(n) == [t |-> "array", s |-> EMPTY, n |-> n]

\* Python truth of a value, as "x or default" tests it
Truthy(v) ==
    \/ v.t = "str" /\ v.s # EMPTY
    \/ v.t = "num" /\ v.n # 0
    \/ v.t = "array" /\ v.n > 0

\* The document json.loads returns: an object with its two keys, or a
\* value of another type.
JObject(d, l) == [t |-> "object", description |-> d, labels |-> l]
JOther(t) == [t |-> t, description |-> JAbsent, labels |-> JAbsent]

\* The text of a response: optional leading whitespace, an optional opening
\* code fence ("fence" or "fence json"), the body, an optional closing fence.
\* body is "json" (a JSON document, data), "garbage" or "empty".
Text(lead, open, body, data, close) ==
    [lead |-> lead, open |-> open, body |-> body, data |-> data, close |-> close]
EmptyText == Text(FALSE, "", "empty", JOther("null"), FALSE)

\* re.sub(r"^```(?:json)?\s*", "", text): an opening fence at the very start
StripOpenFence(text) ==
    IF ~text.lead /\ text.open # "" THEN [text EXCEPT !.open = ""] ELSE text

\* re.sub(r"\s*```\s*$", "", text)
StripCloseFence(text) == [text EXCEPT !.close = FALSE]

\* text.strip()
StripText(text) == [text EXCEPT !.lead = FALSE]

\* json.loads(text): the document, or JSONDecodeError
json_loads(text) ==
    IF text.body = "json" /\ text.open = "" /\ ~text.close /\ ~text.lead
    THEN [exc |-> "", data |-> text.data]
    ELSE [exc |-> "JSONDecodeError", data |-> JOther("null")]

\* s.replace("\\n", "\n"): backslash, n becomes a newline
RECURSIVE ReplaceEscapedNewline(_)
ReplaceEscapedNewline(s) ==
    IF Len(s) < 2 THEN s
    ELSE IF s[1] = "\\" /\ s[2] = "n"
         THEN <<"\n">> \o ReplaceEscapedNewline(SubSeq(s, 3, Len(s)))
         ELSE <<s[1]>> \o ReplaceEscapedNewline(Tail(s))

\* What a call gives back: the pair it returns or the exception it raises,
\* and the number of client.messages.create calls it made.
GenReturn(desc, labels, sent) ==
    [exc |-> "", desc |-> desc, labels |-> labels, sent |-> sent]
GenRaise(e, sent) == [exc |-> e, desc |-> EMPTY, labels |-> EMPTY, sent |-> sent]

\* the no-credential fallback without the raw text
NoKeyFallback_TitleOnly(title, raw_text) ==
    GenReturn(title, _fallback_labels(title, raw_text), 0)

\* lines 116-118: no credential
NoKeyFallback(title, raw_text) ==
    GenReturn(IF raw_text # EMPTY THEN title \o NLNL \o Take(raw_text, DESC_CAP)
              ELSE title,
              _fallback_labels(title, raw_text), 0)

\* the error fallback reached after one more attempt at the request
ErrorFallback_AfterRetry(title, raw_text, sent) ==
    GenReturn(title \o NLNL \o Take(raw_text, DESC_CAP),
              _fallback_labels(title, raw_text), sent + 1)

\* lines 123, 141, 150: import, request or JSON parse failed
ErrorFallback(title, raw_text, sent) ==
    GenReturn(title \o NLNL \o Take(raw_text, DESC_CAP),
              _fallback_labels(title, raw_text), sent)

\* lines 151-153: the fields of the parsed document
FromData(title, data) ==
    IF data.t # "object" THEN GenRaise("AttributeError", 1)
    ELSE LET d == IF Truthy(data.description) THEN data.description
                  ELSE JStr(title)
             l == IF Truthy(data.labels) THEN data.labels ELSE JStr(EMPTY)
         IN  IF d.t # "str" \/ l.t # "str" THEN GenRaise("AttributeError", 1)
             ELSE GenReturn(ReplaceEscapedNewline(d.s), Strip(l.s), 1)

\* outcome: what the service does in this call: client is "ok" or "raises"
\* (anthropic.Anthropic()), request is "ok" or "raises"
\* (client.messages.create), has_content and text are the response.
generate_description_and_labels(title, raw_text, key, importable, outcome) ==
    IF ~key THEN NoKeyFallback(title, raw_text)
    ELSE IF ~importable THEN ErrorFallback(title, raw_text, 0)
    ELSE IF outcome.client = "raises" THEN GenRaise("ClientError", 0)
    ELSE IF outcome.request = "raises" THEN ErrorFallback(title, raw_text, 1)
    ELSE LET text == IF outcome.has_content THEN outcome.text ELSE EmptyText
             parsed == json_loads(StripText(StripCloseFence(StripOpenFence(text))))
         IN  IF parsed.exc # "" THEN ErrorFallback(title, raw_text, 1)
             ELSE FromData(title, parsed.data)

---------------------------------------------------------------------------
(* load_reference_by_asin *)

\* a reference row shorter than this is skipped
REF_MIN_COLUMNS == 7

\* idx[name]: the column of the header named name
Idx(header, name) == CHOOSE k \in 1..Len(header) : header[k] = name

\* ref[asin] = {...}
Put(ref, asin, entry) ==
    [a \in (DOMAIN ref) \cup {asin} |-> IF a = asin THEN entry ELSE ref[a]]

RECURSIVE LoadRows(_, _, _)
LoadRows(header, rows, ref) ==
    IF rows = <<>> THEN ref
    ELSE LET row == Head(rows)
             asin == _extract_asin(Strip(row[Idx(header, "product_link")]))
             entry == [description |-> row[Idx(header, "description")],
                       labels |-> Strip(row[Idx(header, "labels")]),
                       image_links |-> Strip(row[Idx(header, "image_links")]),
                       price |-> Strip(row[Idx(header, "price")])]
         IN  IF Len(row) < REF_MIN_COLUMNS THEN LoadRows(header, Tail(rows), ref)
             ELSE IF asin = EMPTY THEN LoadRows(header, Tail(rows), ref)
             ELSE LoadRows(header, Tail(rows), Put(ref, asin, entry))

load_reference_by_asin(header, rows) == LoadRows(header, rows, <<>>)

---------------------------------------------------------------------------
(* main *)

IMAGE_PREFIX == <<"h", "t", "t", "p", "s", ":", "/", "/", "i", "m", "a", "g", "e", "s", "-", "n", "a", ".", "s", "s", "l", "-", "i", "m", "a", "g", "e", "s", "-", "a", "m", "a", "z", "o", "n", ".", "c", "o", "m", "/", "i", "m", "a", "g", "e", "s", "/", "P", "/">>
IMAGE_SUFFIX == <<".", "0", "1", ".", "j", "p", "g">>

\* the reference record with the labels in the sheet's own casing
ReferenceRecord_SheetCase(title, url, r) ==
    [name |-> title, description |-> r.description, labels |-> r.labels,
     image_links |-> r.image_links, product_link |-> url, price |-> r.price]

\* lines 187-194: the record built from the reference entry r
ReferenceRecord(title, url, r) ==
    [name |-> title, description |-> r.description, labels |-> Lower(r.labels),
     image_links |-> r.image_links, product_link |-> url, price |-> r.price]

\* lines 199-202
DefaultImage(asin) ==
    IF asin # EMPTY THEN IMAGE_PREFIX \o asin \o IMAGE_SUFFIX ELSE EMPTY

\* lines 203-210: the record built from the generated pair
GeneratedRecord(title, url, asin, desc, labels, price) ==
    [name |-> title, description |-> desc, labels |-> Lower(labels),
     image_links |-> DefaultImage(asin), product_link |-> url, price |-> price]

\* the rows numbered from 0
WriteRows_FromZero(rows) ==
    [k \in 1..Len(rows) |->
        [id |-> k - 1, name |-> rows[k].name, description |-> rows[k].description,
         labels |-> rows[k].labels, image_links |-> rows[k].image_links,
         product_link |-> rows[k].product_link, price |-> rows[k].price]]

\* lines 217-226: enumerate(out_rows, start=1)
WriteRows(rows) ==
    [k \in 1..Len(rows) |->
        [id |-> k, name |-> rows[k].name, description |-> rows[k].description,
         labels |-> rows[k].labels, image_links |-> rows[k].image_links,
         product_link |-> rows[k].product_link, price |-> rows[k].price]]

\* line 171
LoadReference ==
    /\ pc = "load"
    /\ ref_by_asin' = load_reference_by_asin(ref_header, ref_rows)
    /\ pc' = "loop"
    /\ UNCHANGED <<ref_rows, ref_header, raw_rows, api_key, has_anthropic, i,
                   out_rows, paths, requests, written, error>>
    /\ UNCHANGED <<genVars, priceVars, asinVars>>

\* the row the loop is at, and what lines 179-181 take from it
CurRow == raw_rows[i + 1]
CurTitle == _get(CurRow.title)
CurUrl == _get(CurRow.url)
CurAsin == _extract_asin(CurUrl)

\* lines 184-194: one pass of the loop, on a reference hit
ReuseReference ==
    /\ pc = "loop"
    /\ i < Len(raw_rows)
    /\ CurAsin \in DOMAIN ref_by_asin
    /\ out_rows' = Append(out_rows,
                          ReferenceRecord(CurTitle, CurUrl, ref_by_asin[CurAsin]))
    /\ paths' = Append(paths, "reference")
    /\ i' = i + 1
    /\ UNCHANGED <<ref_rows, ref_header, ref_by_asin, raw_rows, api_key,
                   has_anthropic, requests, written, error, pc>>
    /\ UNCHANGED <<genVars, priceVars, asinVars>>

\* lines 195-210: one pass of the loop, on the generation branch, the service
\* behaving as outcome says.  An exception leaves the loop and main.
GenerateWith(outcome) ==
    LET g == generate_description_and_labels(
                 CurTitle, raw_text_for_llm(CurRow), api_key, has_anthropic, outcome)
        price == normalize_price(_get(CurRow.wholePriceBlockText))
    IN  /\ requests' = requests \o Rep(i + 1, g.sent)
        /\ IF g.exc # ""
           THEN /\ pc' = "crashed"
                /\ error' = g.exc
                /\ UNCHANGED <<out_rows, paths, i>>
           ELSE IF price.exc # ""
           THEN /\ pc' = "crashed"
                /\ error' = price.exc
                /\ UNCHANGED <<out_rows, paths, i>>
           ELSE /\ out_rows' = Append(out_rows,
                                      GeneratedRecord(CurTitle, CurUrl, CurAsin,
                                                      g.desc, g.labels, price.val))
                /\ paths' = Append(paths, "generated")
                /\ i' = i + 1
                /\ UNCHANGED <<pc, error>>

\* lines 212-228: after the loop
WriteOutput ==
    /\ pc = "loop"
    /\ i = Len(raw_rows)
    /\ written' = WriteRows(out_rows)
    /\ pc' = "done"
    /\ UNCHANGED <<ref_rows, ref_header, ref_by_asin, raw_rows, api_key,
                   has_anthropic, i, out_rows, paths, requests, error>>
    /\ UNCHANGED <<genVars, priceVars, asinVars>>

---------------------------------------------------------------------------
(* The service's behaviours in one call *)

Out(client, request, has_content, text) ==
    [client |-> client, request |-> request, has_content |-> has_content,
     text |-> text]

\* the call does not reach the service
NoService == Out("none", "none", FALSE, EmptyText)

GoodData == JObject(JStr(<<"N", "i", "c", "e", "\\", "n", "s", "e", "r", "u", "m">>), JStr(<<" ", "O", "i", "l", "y", " ", "s", "k", "i", "n", ",", "D", "r", "y", " ", "s", "k", "i", "n", " ">>))
SpacedData == JObject(JStr(<<"G", "e", "l">>), JStr(<<"O", "i", "l", "y", " ", "s", "k", "i", "n", ",", " ", "D", "r", "y", " ", "s", "k", "i", "n">>))
FreeTextData == JObject(JStr(<<"B", "a", "l", "m">>), JStr(<<"S", "e", "n", "s", "i", "t", "i", "v", "e", " ", "s", "k", "i", "n">>))
BareData == JObject(JAbsent, JNull)
NumberDescData == JObject(JNum(5), JStr(<<"O", "i", "l", "y", " ", "s", "k", "i", "n">>))
ListLabelsData == JObject(JStr(<<"G", "e", "l">>), JArray(1))

Outcomes ==
    { Out("raises", "none", FALSE, EmptyText),
      Out("ok", "raises", FALSE, EmptyText),
      Out("ok", "ok", FALSE, EmptyText),
      Out("ok", "ok", TRUE, Text(FALSE, "", "garbage", JOther("null"), FALSE)),
      Out("ok", "ok", TRUE, Text(FALSE, "fence json", "json", GoodData, TRUE)),
      Out("ok", "ok", TRUE, Text(TRUE, "fence", "json", GoodData, TRUE)),
      Out("ok", "ok", TRUE, Text(TRUE, "", "json", SpacedData, FALSE)),
      Out("ok", "ok", TRUE, Text(FALSE, "", "json", FreeTextData, FALSE)),
      Out("ok", "ok", TRUE, Text(FALSE, "", "json", BareData, FALSE)),
      Out("ok", "ok", TRUE, Text(FALSE, "", "json", JOther("array"), FALSE)),
      Out("ok", "ok", TRUE, Text(FALSE, "", "json", NumberDescData, FALSE)),
      Out("ok", "ok", TRUE, Text(FALSE, "fence", "json", ListLabelsData, TRUE)) }

\* the behaviours a call can meet: the service is reached only with a
\* credential and the client library
OutcomesFor(key, importable) == IF key /\ importable THEN Outcomes ELSE {NoService}

---------------------------------------------------------------------------
(* The files of a run *)

RefHeader ==
    <<"id", "name", "description", "labels", "image_links", "product_link", "price">>
RefHeaderSwapped ==
    <<"id", "name", "labels", "description", "price", "product_link", "image_links">>

RefFiles ==
    { [header |-> RefHeader,
       rows |-> << <<<<"1">>, <<"G", "e", "l">>, <<"C", "u", "r", "a", "t", "e", "d", " ", "g", "e", "l", ".", " ">>, <<" ", "O", "i", "l", "y", " ", "s", "k", "i", "n", ",", "L", "a", "r", "g", "e", " ", "p", "o", "r", "e", "s", " ">>,
                     <<" ", "h", "t", "t", "p", ":", "/", "/", "i", "/", "a", ".", "j", "p", "g">>, <<" ", "h", "t", "t", "p", "s", ":", "/", "/", "a", ".", "c", "o", "/", "d", "p", "/", "B", "0", "0", "0", "0", "0", "0", "0", "0", "A", " ">>, <<" ", "1", "4", ".", "5", " ">>>>,
                   <<<<"2">>, <<"S", "h", "o", "r", "t">>, <<"x">>, <<"D", "r", "y", " ", "s", "k", "i", "n">>, <<"i">>, <<"/", "d", "p", "/", "B", "0", "0", "0", "0", "0", "0", "0", "0", "B">>>>,
                   <<<<"3">>, <<"N", "o", "A", "s", "i", "n">>, <<"x">>, <<"D", "r", "y", " ", "s", "k", "i", "n">>, <<"i">>, <<"h", "t", "t", "p", "s", ":", "/", "/", "a", ".", "c", "o", "/", "x">>, <<"9">>>> >>],
      [header |-> RefHeaderSwapped,
       rows |-> << <<<<"1">>, <<"G", "e", "l">>, <<"S", "e", "n", "s", "i", "t", "i", "v", "e", " ", "s", "k", "i", "n">>, <<"O", "l", "d">>, <<"$", "1">>, <<"/", "d", "p", "/", "B", "0", "0", "0", "0", "0", "0", "0", "0", "A">>, <<"j">>>>,
                   <<<<"1">>, <<"G", "e", "l">>, <<"S", "e", "n", "s", "i", "t", "i", "v", "e", " ", "s", "k", "i", "n">>, <<"N", "e", "w">>, <<"$", "1", "5", ".", "0", "0">>, <<"/", "d", "p", "/", "B", "0", "0", "0", "0", "0", "0", "0", "0", "A">>, <<"k">>>> >>],
      [header |-> RefHeader, rows |-> <<>>] }

Row(title, url, pd, ai, ap, price) ==
    [title |-> title, url |-> url, productDescription |-> pd,
     additionalInfo |-> ai, aboutProduct |-> ap, wholePriceBlockText |-> price]

RawRowSet ==
    { Row(<<"O", "i", "l", "y", "-", "S", "k", "i", "n", " ", "G", "e", "l">>, <<"h", "t", "t", "p", "s", ":", "/", "/", "a", ".", "c", "o", "/", "d", "p", "/", "B", "0", "0", "0", "0", "0", "0", "0", "0", "A">>, EMPTY, EMPTY, EMPTY, <<"$", "1", "5", ".", "0", "0">>),
      Row(<<" ", "S", "e", "r", "u", "m", " ">>, <<"/", "d", "p", "/", "B", "0", "0", "0", "0", "0", "0", "0", "0", "B", "/", "r", "e", "f">>, <<"F", "o", "r", " ", "d", "r", "y", " ", "s", "k", "i", "n", " ", " ", "a", "n", "d", "\n", "\n", "\n", "\n", "f", "i", "n", "e", " ", "l", "i", "n", "e", "s">>,
          EMPTY, <<" ", "W", "h", "i", "t", "e", "h", "e", "a", "d", "s", " ">>, <<"1", "2", ".", "9", "9">>),
      Row(EMPTY, EMPTY, <<" ", " ">>, EMPTY, EMPTY, EMPTY),
      Row(<<"T", "o", "n", "e", "r">>, <<"h", "t", "t", "p", "s", ":", "/", "/", "a", ".", "c", "o", "/", "g", "p", "/", "x">>, EMPTY, <<"S", "e", "n", "s", "i", "t", "i", "v", "e">>, EMPTY, <<"N", "/", "A">>) }

\* the sequences over S of length at most n
SeqsUpTo(S, n) == UNION {[1..m -> S] : m \in 0..n}

---------------------------------------------------------------------------
(* Idle values: each specification runs one part and leaves the others idle *)

NoReturn == GenReturn(EMPTY, EMPTY, 0)
NoRow == Row(EMPTY, EMPTY, EMPTY, EMPTY, EMPTY, EMPTY)

MainIdle ==
    /\ ref_rows = <<>> /\ ref_header = RefHeader /\ ref_by_asin = <<>>
    /\ raw_rows = <<>> /\ api_key = FALSE /\ has_anthropic = FALSE
    /\ i = 0 /\ out_rows = <<>> /\ paths = <<>> /\ requests = <<>>
    /\ written = <<>> /\ error = "" /\ pc = "idle"

GenIdle ==
    /\ g_row = NoRow /\ g_title = EMPTY /\ g_raw_text = EMPTY
    /\ g_env = [key |-> FALSE, importable |-> FALSE, outcome |-> NoService,
                via |-> "none"]
    /\ g_ret = NoReturn /\ g_pc = "idle"

PriceIdle == p_raw = EMPTY /\ p_out = Ret(EMPTY) /\ p_again = Ret(EMPTY) /\ p_pc = "idle"

AsinIdle == a_url = EMPTY /\ a_out = EMPTY /\ a_pc = "idle"

---------------------------------------------------------------------------
(* A run of main *)

\* one pass of the loop on the generation branch
GenerateRow ==
    /\ pc = "loop"
    /\ i < Len(raw_rows)
    /\ CurAsin \notin DOMAIN ref_by_asin
    /\ \E outcome \in OutcomesFor(api_key, has_anthropic) : GenerateWith(outcome)
    /\ UNCHANGED <<ref_rows, ref_header, ref_by_asin, raw_rows, api_key,
                   has_anthropic, written>>
    /\ UNCHANGED <<genVars, priceVars, asinVars>>

Init ==
    /\ \E f \in RefFiles : ref_header = f.header /\ ref_rows = f.rows
    /\ raw_rows \in SeqsUpTo(RawRowSet, MaxRows)
    /\ api_key \in BOOLEAN
    /\ has_anthropic \in BOOLEAN
    /\ ref_by_asin = <<>>
    /\ i = 0 /\ out_rows = <<>> /\ paths = <<>> /\ requests = <<>>
    /\ written = <<>> /\ error = "" /\ pc = "load"
    /\ GenIdle /\ PriceIdle /\ AsinIdle

Next == LoadReference \/ ReuseReference \/ GenerateRow \/ WriteOutput

Spec == Init /\ [][Next]_vars

---------------------------------------------------------------------------
(* One call of generate_description_and_labels *)

\* a description field longer than RAW_CAP
LongField == <<"W", "r", "i", "n", "k", "l", "e", "s", " ">> \o Rep("x", RAW_CAP) \o <<" ", "M", "e", "l", "a", "s", "m", "a">>

GenRowSet ==
    { Row(EMPTY, EMPTY, EMPTY, <<" ", "\n", " ">>, EMPTY, EMPTY),
      Row(<<" ", "S", "e", "r", "u", "m", " ">>, EMPTY, EMPTY, EMPTY, EMPTY, EMPTY),
      Row(EMPTY, EMPTY, EMPTY, EMPTY, <<"f", "o", "r", " ", "D", "r", "y", "-", "S", "k", "i", "n">>, EMPTY),
      Row(<<"G", "e", "l">>, EMPTY, <<"O", "i", "l", "y", " ", " ", "s", "k", "i", "n">>, <<"\n">>, <<"l", "a", "r", "g", "e", " ", "p", "o", "r", "e", "s", "\n", "\n", "\n", "\n", "u", "n", "e", "v", "e", "n">>, EMPTY),
      Row(<<"C", "r", "e", "a", "m">>, EMPTY, LongField, EMPTY, <<"f", "i", "n", "e", " ", "l", "i", "n", "e", "s">>, EMPTY) }

\* raw texts given to the function directly
DirectRawTexts == {EMPTY, <<"f", "o", "r", " ", "o", "i", "l", "y", " ", "s", "k", "i", "n">>, Rep("y", DESC_CAP + 1)}

GenCall(title, raw_text, via) ==
    \E key \in BOOLEAN, importable \in BOOLEAN :
        \E outcome \in OutcomesFor(key, importable) :
            /\ g_title' = title
            /\ g_raw_text' = raw_text
            /\ g_env' = [key |-> key, importable |-> importable,
                         outcome |-> outcome, via |-> via]
            /\ g_ret' = generate_description_and_labels(
                            title, raw_text, key, importable, outcome)
            /\ g_pc' = "called"

\* as main calls it: lines 179 and 197-198
GenCallRow ==
    /\ g_pc = "start"
    /\ GenCall(_get(g_row.title), raw_text_for_llm(g_row), "row")
    /\ UNCHANGED <<g_row, mainVars, priceVars, asinVars>>

\* called with any raw text
GenCallDirect ==
    /\ g_pc = "start"
    /\ \E raw \in DirectRawTexts : GenCall(_get(g_row.title), raw, "direct")
    /\ UNCHANGED <<g_row, mainVars, priceVars, asinVars>>

GenInit ==
    /\ g_row \in GenRowSet
    /\ g_title = EMPTY /\ g_raw_text = EMPTY
    /\ g_env = [key |-> FALSE, importable |-> FALSE, outcome |-> NoService,
                via |-> "none"]
    /\ g_ret = NoReturn /\ g_pc = "start"
    /\ MainIdle /\ PriceIdle /\ AsinIdle

GenNext == GenCallRow \/ GenCallDirect

SpecGen == GenInit /\ [][GenNext]_vars

---------------------------------------------------------------------------
(* normalize_price, applied to a string and to its own result *)

\* no digit 5: see Format2f
PriceAlphabet == {"$", " ", ".", "0", "9", "a"}

\* a digit string float() turns into inf
HugeDigits == Rep("9", FLOAT_MAX_DIGITS + 1)

PriceInputs == SeqsUpTo(PriceAlphabet, MaxPriceLen) \cup {HugeDigits}

PriceOnce ==
    /\ p_pc = "start"
    /\ p_out' = normalize_price(p_raw)
    /\ p_pc' = IF p_out'.exc # "" THEN "raised" ELSE "once"
    /\ UNCHANGED <<p_raw, p_again, mainVars, genVars, asinVars>>

PriceAgain ==
    /\ p_pc = "once"
    /\ p_again' = normalize_price(p_out.val)
    /\ p_pc' = IF p_again'.exc # "" THEN "raised" ELSE "twice"
    /\ UNCHANGED <<p_raw, p_out, mainVars, genVars, asinVars>>

PriceInit ==
    /\ p_raw \in PriceInputs
    /\ p_out = Ret(EMPTY) /\ p_again = Ret(EMPTY) /\ p_pc = "start"
    /\ MainIdle /\ GenIdle /\ AsinIdle

PriceNext == PriceOnce \/ PriceAgain

SpecPrice == PriceInit /\ [][PriceNext]_vars

---------------------------------------------------------------------------
(* One call of _extract_asin *)

UrlPrefixes == {EMPTY, <<"h", "t", "t", "p", "s", ":", "/", "/", "a", ".", "c", "o", "/", "x">>, <<"/", "d", "p", "/", "B", "0", "/">>, <<"/", "d", "p", "/", "A", "B", "C", "D", "E", "F", "G", "H", "I", "/", "/">>}
UrlMarks == {DP, <<"/", "g", "p", "/">>, <<"/", "D", "P", "/">>}

\* what follows the mark: a run of one character, then a run of another
UrlSegments ==
    { Rep(c, n) \o Rep(d, m) :
        c \in {"B", "0"}, d \in {"Z", "b", "/"},
        n \in 0..MaxSegLen, m \in 0..2 }

Urls == { p \o k \o g : p \in UrlPrefixes, k \in UrlMarks, g \in UrlSegments }

AsinExtract ==
    /\ a_pc = "start"
    /\ a_out' = _extract_asin(a_url)
    /\ a_pc' = "done"
    /\ UNCHANGED <<a_url, mainVars, genVars, priceVars>>

AsinInit ==
    /\ a_url \in Urls
    /\ a_out = EMPTY /\ a_pc = "start"
    /\ MainIdle /\ GenIdle /\ PriceIdle

AsinNext == AsinExtract

SpecAsin == AsinInit /\ [][AsinNext]_vars

---------------------------------------------------------------------------
(* Properties *)

\* s.split(",")
RECURSIVE Split(_)
Split(s) ==
    IF \A k \in 1..Len(s) : s[k] # ","  THEN <<s>>
    ELSE LET c == CHOOSE k \in 1..Len(s) :
                      s[k] = "," /\ \A j \in 1..(k - 1) : s[j] # ","
         IN  <<SubSeq(s, 1, c - 1)>> \o Split(SubSeq(s, c + 1, Len(s)))

AllowedLower == {Lower(ALLOWED_LABELS[k]) : k \in 1..Len(ALLOWED_LABELS)}

FromAllowedSet(labels) ==
    labels = EMPTY \/ \A e \in Range(Split(labels)) : e \in AllowedLower

\* C1: every output record's labels field is empty or a comma-joined list
\* of lowercase members of ALLOWED_LABELS, whichever branch built it.
C1_LabelsFromAllowedSet ==
    /\ \A k \in 1..Len(out_rows) : FromAllowedSet(out_rows[k].labels)
    /\ \A k \in 1..Len(written) : FromAllowedSet(written[k].labels)

\* C2: with a credential, no behaviour of the service ends the run: every
\* call returns and main goes on to the next rows and the output.
C2_ServiceNeverAbortsRun == api_key => pc # "crashed"

\* the row's text fields are all blank and so is its title
BlankRow(row) ==
    /\ Strip(row.title) = EMPTY
    /\ Strip(row.productDescription) = EMPTY
    /\ Strip(row.additionalInfo) = EMPTY
    /\ Strip(row.aboutProduct) = EMPTY

\* C3 as stated: without a credential a call made for a raw row sends no
\* request and returns a non-empty description.
C3_NoKeyNonEmptyDescription ==
    (g_pc = "called" /\ ~g_env.key /\ g_env.via = "row")
        => g_ret.exc = "" /\ g_ret.sent = 0 /\ g_ret.desc # EMPTY

\* C3 amended: without a credential a call sends no request and returns;
\* the description is empty exactly when title and raw text are both
\* empty, which for a raw row means a blank title and blank text fields.
C3_NoKeyDescription ==
    (g_pc = "called" /\ ~g_env.key)
        => /\ g_ret.exc = "" /\ g_ret.sent = 0
           /\ (g_ret.desc = EMPTY) <=> (g_title = EMPTY /\ g_raw_text = EMPTY)
           /\ g_env.via = "row" =>
                 ((g_title = EMPTY /\ g_raw_text = EMPTY) <=> BlankRow(g_row))

\* an empty title, yet a description: the raw text alone fills it
C3_Witness ==
    /\ g_pc = "called" /\ ~g_env.key /\ g_env.via = "row"
    /\ g_title = EMPTY /\ g_raw_text # EMPTY
    /\ g_ret.desc # EMPTY /\ g_ret.sent = 0

\* the call fell back after the request failed or the response did not parse
FellBack ==
    /\ g_pc = "called" /\ g_env.key /\ g_env.importable
    /\ g_env.outcome.client = "ok"
    /\ \/ g_env.outcome.request = "raises"
       \/ ~g_env.outcome.has_content
       \/ json_loads(StripText(StripCloseFence(StripOpenFence(
              g_env.outcome.text)))).exc # ""

\* C4: the pair returned after a failed request or an unparsable response
\* equals the pair returned when no credential is configured.
C4_FallbacksAgree ==
    FellBack =>
        LET nokey == generate_description_and_labels(
                         g_title, g_raw_text, FALSE, g_env.importable, NoService)
        IN  g_ret.exc = "" /\ g_ret.desc = nokey.desc /\ g_ret.labels = nokey.labels

\* C5: normalize_price(normalize_price(s)) = normalize_price(s)
C5_PriceIdempotent == p_pc = "twice" => p_again.val = p_out.val

\* digits, a point, two digits
TwoDecimals(s) ==
    /\ Len(s) >= 4
    /\ s[Len(s) - 2] = "."
    /\ AllDigits(SubSeq(s, 1, Len(s) - 3))
    /\ AllDigits(SubSeq(s, Len(s) - 1, Len(s)))

\* C6: normalize_price never raises; with the currency symbol and
\* whitespace stripped, a plain decimal of whole value comes back as its
\* integer digits, one of another value with exactly two decimals, and any
\* other input comes back unchanged.
C6_PriceContract ==
    /\ p_pc # "raised"
    /\ p_pc \in {"once", "twice"} =>
          LET num == AfterCurrency(Strip(p_raw))
          IN  IF ~IsPlainDecimal(num) THEN p_out.val = p_raw
              ELSE IF IsWhole(num)
                   THEN AllDigits(p_out.val)
                        /\ ToNat(p_out.val) = ToNat(IntPart(num))
                   ELSE TwoDecimals(p_out.val)

\* the uppercase-alphanumeric segment that follows position p + 3
SegmentLen(url, p) ==
    CHOOSE n \in 0..Len(url) :
        /\ \A k \in 1..n : p + 3 + k <= Len(url) /\ IsAsinChar(url[p + 3 + k])
        /\ p + 4 + n > Len(url) \/ ~IsAsinChar(url[p + 4 + n])

\* where "/dp/" is followed by a segment of exactly the identifier's length
IdentifierStarts(url) ==
    {p \in 1..Len(url) :
        /\ p + 3 <= Len(url)
        /\ SubSeq(url, p, p + 3) = DP
        /\ SegmentLen(url, p) = ASIN_MAX}

\* C7: a URL with "/dp/" and the fixed-length identifier gives exactly that
\* identifier, never a prefix of a longer segment nor a shorter code; any
\* other URL gives the empty string.
C7_ExactIdentifier ==
    a_pc = "done" =>
        IF IdentifierStarts(a_url) = {}
        THEN a_out = EMPTY
        ELSE \E p \in IdentifierStarts(a_url) :
                 a_out = SubSeq(a_url, p + 4, p + 3 + ASIN_MAX)

\* the identifiers of the reference rows that load_reference_by_asin keeps
ReferenceKeys ==
    {_extract_asin(Strip(ref_rows[k][Idx(ref_header, "product_link")])) :
        k \in {j \in 1..Len(ref_rows) : Len(ref_rows[j]) >= REF_MIN_COLUMNS}}
    \ {EMPTY}

\* C8: a row takes the reference branch exactly when its identifier is a
\* key of the reference map, never without an identifier; there the record
\* has the entry's description, image_links and price and its labels
\* lowercased; on the other branch image_links is the default URL of the
\* identifier, or empty without one; name and product_link are the row's
\* title and url.
C8_RowAssembly ==
    pc # "load" =>
        /\ DOMAIN ref_by_asin = ReferenceKeys
        /\ \A k \in 1..Len(out_rows) :
              LET row == raw_rows[k]
                  asin == _extract_asin(Strip(row.url))
                  o == out_rows[k]
              IN  /\ (paths[k] = "reference") <=> (asin \in DOMAIN ref_by_asin)
                  /\ asin = EMPTY => paths[k] = "generated"
                  /\ o.name = Strip(row.title)
                  /\ o.product_link = Strip(row.url)
                  /\ paths[k] = "reference" =>
                        /\ o.description = ref_by_asin[asin].description
                        /\ o.image_links = ref_by_asin[asin].image_links
                        /\ o.labels = Lower(ref_by_asin[asin].labels)
                        /\ o.price = ref_by_asin[asin].price
                  /\ paths[k] = "generated" =>
                        o.image_links =
                            IF asin = EMPTY THEN EMPTY
                            ELSE IMAGE_PREFIX \o asin \o IMAGE_SUFFIX

\* a reference hit whose labels were lowercased and whose price is not the
\* raw row's, beside a generated record with the default image
C8_Witness ==
    /\ Len(out_rows) = 2
    /\ paths = <<"reference", "generated">>
    /\ out_rows[1].labels # ref_by_asin[_extract_asin(Strip(raw_rows[1].url))].labels
    /\ out_rows[1].price # normalize_price(_get(raw_rows[1].wholePriceBlockText)).val
    /\ out_rows[2].image_links # EMPTY

\* number of requests sent for row k
RequestCount(k) == Cardinality({j \in 1..Len(requests) : requests[j] = k})

RowInReference(k) == _extract_asin(Strip(raw_rows[k].url)) \in DOMAIN ref_by_asin

\* C9 as stated: over a whole run every row gets exactly one request when
\* a credential is configured and its identifier is not in the reference
\* map, and none otherwise.
C9_OneRequestPerUngeneratedRow ==
    pc = "done" =>
        \A k \in 1..Len(raw_rows) :
            RequestCount(k) = IF api_key /\ ~RowInReference(k) THEN 1 ELSE 0

\* C9 amended: a row whose pass of the loop is complete got exactly one
\* request when a credential is configured, the client library imports and
\* its identifier is not in the reference map, and none otherwise; no row
\* ever gets a second request; requests go out in input order, and only
\* the row at which the run was abandoned can have one beyond the finished
\* rows.
C9_RequestsPerRow ==
    pc # "load" =>
        /\ Len(out_rows) = i /\ Len(paths) = i /\ i <= Len(raw_rows)
        /\ \A k \in 1..i : out_rows[k].product_link = Strip(raw_rows[k].url)
        /\ \A j \in 1..Len(requests) : requests[j] \in 1..Len(raw_rows)
        /\ \A j \in 1..(Len(requests) - 1) : requests[j] < requests[j + 1]
        /\ \A k \in 1..Len(raw_rows) :
              /\ RequestCount(k) <= 1
              /\ k <= i =>
                    RequestCount(k) =
                        IF api_key /\ has_anthropic /\ ~RowInReference(k)
                        THEN 1 ELSE 0
              /\ (k > i /\ RequestCount(k) = 1) => (k = i + 1 /\ pc = "crashed")

\* a finished run: a reference hit without a request, then a generated
\* row with its one request
C9_Witness ==
    /\ pc = "done" /\ api_key /\ has_anthropic
    /\ paths = <<"reference", "generated">>
    /\ requests = <<2>>

\* C10: the output has one record for each raw row, in input order, and
\* the k-th record written has id k.
C10_SequentialIds ==
    pc = "done" =>
        /\ Len(written) = Len(raw_rows)
        /\ \A k \in 1..Len(written) :
              /\ written[k].id = k
              /\ written[k].name = Strip(raw_rows[k].title)
              /\ written[k].product_link = Strip(raw_rows[k].url)
              /\ written[k].description = out_rows[k].description

\* two different rows, one generated and one reused, written in order
C10_Witness ==
    /\ pc = "done" /\ Len(written) = 2
    /\ paths = <<"generated", "reference">>
    /\ written[1].name # written[2].name
    /\ written[2].id = 2

=============================================================================
